---- MODULE Spec2Model ----
(***************************************************************************)
(* Model of src/bot.py: the web-app edit pipeline (webapp_data), the       *)
(* RU->EN translation chain (translate_ru_to_en), the bitmask decoder      *)
(* (_unpack_bitmask_to_L), the mask compositor (_build_fullsize_mask),     *)
(* the backend call (call_stability_inpaint), the image intake (got_image) *)
(* and the handler table of main with the fallback router                  *)
(* (route_webapp_if_any).                                                  *)
(*                                                                         *)
(* Python values that can have several types (JSON fields, provider        *)
(* answers) are tagged records: JNull, JInt(n), JStr(s).  A string is the  *)
(* sequence of its characters; a URL is the sequence of its path tokens.   *)
(***************************************************************************)
EXTENDS Integers, Sequences, FiniteSets, TLC

VARIABLES
    DEEPL_API_KEY,    \* TRUE iff the DeepL credential is configured (bot.py:26)
    LAST_IMAGE_URL,   \* user -> public url of the last accepted image (bot.py:40)
    files,            \* names of the files present in UPLOAD_DIR
    nUpdates,         \* updates dispatched so far
    nSaved,           \* files stored so far by save_tg_file_to_uploads
    handler,          \* handler the dispatcher is running, "none" when idle
    pc,               \* position inside the running handler
    user,             \* update.effective_user.id of the running update
    loc,              \* local variables of the running handler
    trace,            \* what the running request did, in order
    replies,          \* messages sent to the user for the running update
    posted,           \* requests handed to the backend for the running update, with the answers
    tpc,              \* position inside translate_ru_to_en
    text,             \* argument of translate_ru_to_en
    tret,             \* value returned by translate_ru_to_en
    tcalls,           \* provider calls of the running translation, in order
    uarg,             \* arguments of a direct _unpack_bitmask_to_L call
    ures,             \* its result
    marg,             \* arguments of a direct decode-and-composite call (bot.py:239-241)
    mres,             \* its result
    update,           \* kind of the update being processed
    queue,            \* handlers still to run for the update being processed
    ran,              \* callbacks entered for the update being processed, in order
    intakes           \* [user, ref] of every file got_image has stored, in order

tvars == <<tpc, text, tret, tcalls>>
uvars == <<uarg, ures, marg, mres>>
dvars == <<update, queue, ran>>
hvars == <<LAST_IMAGE_URL, files, nUpdates, nSaved, handler, pc, user, loc, trace, replies, posted, dvars, intakes>>
vars == <<DEEPL_API_KEY, hvars, tvars, uvars>>

\* ---------------------------------------------------------------- bounds
MaxTextLen == 2
MaxBytes == 2
MaxDim == 3
MaxUpdates == 2
MaxCanvas == 2

\* ---------------------------------------------------------------- values
JNull == [k |-> "null"]
JInt(n) == [k |-> "int", n |-> n]
JStr(s) == [k |-> "str", s |-> s]
\* a JSON list or object where a string or number is expected
JOther == [k |-> "other"]

\* Python truthiness of a value: None, 0 and "" are falsy, a non-empty
\* list or object is truthy
Truthy(v) ==
    CASE v.k = "null" -> FALSE
      [] v.k = "int" -> v.n # 0
      [] v.k = "str" -> v.s # <<>>
      [] OTHER -> TRUE

\* a or b
PyOr(a, b) == IF Truthy(a) THEN a ELSE b

Min(a, b) == IF a <= b THEN a ELSE b

\* ---------------------------------------------------------------- text
\* one character of the class [A-Ya-yaYoyo] of CYRILLIC_RE, one outside it, one
\* whitespace character
Cyrillic == {"ya"}
Latin == {"a"}
Space == {" "}
Chars == Cyrillic \cup Latin \cup Space

SeqsUpTo(S, n) == UNION {[1..m -> S] : m \in 0..n}
Texts == SeqsUpTo(Chars, MaxTextLen)

\* CYRILLIC_RE.search(s) is not None
CYRILLIC_RE(s) == \E i \in 1..Len(s) : s[i] \in Cyrillic

RECURSIVE LStrip(_)
LStrip(s) == IF s # <<>> /\ Head(s) \in Space THEN LStrip(Tail(s)) ELSE s

RECURSIVE RStrip(_)
RStrip(s) ==
    IF s # <<>> /\ s[Len(s)] \in Space THEN RStrip(SubSeq(s, 1, Len(s) - 1)) ELSE s

\* str.strip()
Strip(s) == RStrip(LStrip(s))

\* ---------------------------------------------------------------- translation
\* the body of a provider answer with status 200, reduced to the value the
\* code reads from it (translations[0].text / translatedText); JBad is a body
\* on which r.json() or the lookups raise
JBad == [k |-> "bad"]
TrVals == {JBad, JNull, JOther, JStr(<<>>), JStr(<<"a">>), JStr(<<"ya">>)}

\* what one provider call can come to: an exception (network error,
\* timeout), a non-200 status, or status 200 with a body
Responses ==
    {[kind |-> "exc", status |-> 0, tr |-> JNull],
     [kind |-> "http", status |-> 500, tr |-> JNull]}
    \cup {[kind |-> "http", status |-> 200, tr |-> v] : v \in TrVals}

NoReturn == [text |-> JNull, provider |-> "none"]

\* only the empty text is returned at once
NoTranslationNeededEmptyOnly(t) == t = <<>>

\* line 134: the text needs no translation
NoTranslationNeeded(t) == t = <<>> \/ ~CYRILLIC_RE(t)

\* any answer with status 200 is taken, the empty one too
AcceptedUnchecked(resp) == resp.kind = "http" /\ resp.status = 200 /\ resp.tr # JBad

\* lines 147-151 and 165-169: the provider's answer is taken as the
\* translation ("if tr:")
Accepted(resp) ==
    /\ resp.kind = "http"
    /\ resp.status = 200
    /\ resp.tr # JBad
    /\ Truthy(resp.tr)

\* lines 134-138: the early return, else the choice of the first provider
TrCheck ==
    /\ tpc = "check"
    /\ IF NoTranslationNeeded(text)
       THEN /\ tret' = [text |-> JStr(text), provider |-> "none"]
            /\ tpc' = "ret"
       ELSE /\ tret' = tret
            /\ tpc' = IF DEEPL_API_KEY THEN "deepl" ELSE "libre"
    /\ UNCHANGED <<DEEPL_API_KEY, text, tcalls, hvars, uvars>>

\* lines 139-155: the DeepL call
TrDeepL(resp) ==
    /\ tpc = "deepl"
    /\ tcalls' = Append(tcalls, [p |-> "deepl", resp |-> resp])
    /\ IF Accepted(resp)
       THEN /\ tret' = [text |-> resp.tr, provider |-> "deepl"]
            /\ tpc' = "ret"
       ELSE /\ tret' = tret
            /\ tpc' = "libre"
    /\ UNCHANGED <<DEEPL_API_KEY, text, hvars, uvars>>

\* a LibreTranslate call that ended in an exception is tried once more
TrLibreRetry(resp) ==
    /\ tpc = "libre"
    /\ tcalls' = Append(tcalls, [p |-> "libre", resp |-> resp])
    /\ IF resp.kind = "exc" /\ ~\E i \in 1..Len(tcalls) : tcalls[i].p = "libre"
       THEN /\ tret' = tret
            /\ tpc' = "libre"
       ELSE /\ tret' = IF Accepted(resp)
                       THEN [text |-> resp.tr, provider |-> "libre"]
                       ELSE [text |-> JStr(text), provider |-> "none"]
            /\ tpc' = "ret"
    /\ UNCHANGED <<DEEPL_API_KEY, text, hvars, uvars>>

\* lines 157-176: the LibreTranslate call and the final return
TrLibre(resp) ==
    /\ tpc = "libre"
    /\ tcalls' = Append(tcalls, [p |-> "libre", resp |-> resp])
    /\ tret' = IF Accepted(resp)
               THEN [text |-> resp.tr, provider |-> "libre"]
               ELSE [text |-> JStr(text), provider |-> "none"]
    /\ tpc' = "ret"
    /\ UNCHANGED <<DEEPL_API_KEY, text, hvars, uvars>>


\* ---------------------------------------------------------------- images
\* a PIL image of mode "L": its size and its pixels, row by row
Img(w, h, px) == [ok |-> TRUE, w |-> w, h |-> h, px |-> px]
\* the call raised instead of returning an image
Raised == [ok |-> FALSE, w |-> 0, h |-> 0, px |-> <<>>]

\* Image.new("L", (w, h), 0); PIL refuses a negative width or height
ImageNew(w, h) ==
    IF w < 0 \/ h < 0 THEN Raised ELSE Img(w, h, [i \in 1..(w * h) |-> 0])

\* the bits of a byte counted from the least significant one
BitOfReversed(b, bit) == (b \div (2 ^ (7 - bit))) % 2

\* (b >> bit) & 1
BitOf(b, bit) == (b \div (2 ^ bit)) % 2

\* lines 83-87: the bits 7..0 of one byte, while pixels are wanted
RECURSIVE UnpackByte(_, _, _, _, _)
UnpackByte(out, idx, b, bit, total) ==
    IF bit < 0 \/ idx >= total
    THEN [out |-> out, idx |-> idx]
    ELSE UnpackByte([out EXCEPT ![idx + 1] = IF BitOf(b, bit) = 1 THEN 255 ELSE 0],
                    idx + 1, b, bit - 1, total)

\* lines 82-89: the bytes in order, until total pixels are written
RECURSIVE UnpackBytes(_, _, _, _, _)
UnpackBytes(out, idx, raw, k, total) ==
    IF k > Len(raw)
    THEN out
    ELSE LET r == UnpackByte(out, idx, raw[k], 7, total)
         IN  IF r.idx >= total THEN r.out ELSE UnpackBytes(r.out, r.idx, raw, k + 1, total)

\* Image.frombytes("L", (w, h), data), as the set of its possible outcomes:
\* PIL refuses a negative width or height; a zero-size image is returned by
\* the PIL releases that skip the decoder for it and refused by the others
FromBytes(w, h, data) ==
    IF w < 0 \/ h < 0
    THEN {Raised}
    ELSE IF w = 0 \/ h = 0 THEN {Img(w, h, data), Raised} ELSE {Img(w, h, data)}

\* lines 79-90, on the decoded bytes raw, as the set of possible outcomes:
\* bytearray(total) raises for a negative total
_unpack_bitmask_to_L(raw, w, h) ==
    LET total == w * h
    IN  IF total < 0
        THEN {Raised}
        ELSE FromBytes(w, h, UnpackBytes([i \in 1..total |-> 0], 0, raw, 1, total))

\* the pixels are taken to lie column by column
PixelAtColumnMajor(im, col, row) == im.px[col * im.h + row + 1]

\* pixel (col, row) of an image, both counted from 0
PixelAt(im, col, row) == im.px[row * im.w + col + 1]

\* Image.resize((w, h), Image.NEAREST): output pixel (i, j) samples the
\* source at the centre of its cell
ResizeNearest(im, w, h) ==
    Img(w, h, [n \in 1..(w * h) |->
        LET i == (n - 1) % w
            j == (n - 1) \div w
        IN  PixelAt(im, ((2 * i + 1) * im.w) \div (2 * w), ((2 * j + 1) * im.h) \div (2 * h))])

\* m is written row after row into the pixel buffer from the offset on, with
\* no clipping to the rows of the canvas
PasteWrapped(canvas, m, x, y) ==
    Img(canvas.w, canvas.h, [n \in 1..(canvas.w * canvas.h) |->
        IF \E i \in 0..(m.w - 1) : \E j \in 0..(m.h - 1) : (y + j) * canvas.w + x + i + 1 = n
        THEN LET c == CHOOSE c \in (0..(m.w - 1)) \X (0..(m.h - 1)) :
                          (y + c[2]) * canvas.w + x + c[1] + 1 = n
             IN  m.px[c[2] * m.w + c[1] + 1]
        ELSE canvas.px[n]])

\* Image.paste(m, (x, y)): m is written at the offset, clipped to the canvas
Paste(canvas, m, x, y) ==
    Img(canvas.w, canvas.h, [n \in 1..(canvas.w * canvas.h) |->
        LET col == (n - 1) % canvas.w
            row == (n - 1) \div canvas.w
        IN  IF col >= x /\ col < x + m.w /\ row >= y /\ row < y + m.h
            THEN PixelAt(m, col - x, row - y)
            ELSE canvas.px[n]])

\* lines 93-101; bbox is a tuple of ints (a tuple of another length fails
\* to unpack at line 93)
_build_fullsize_mask(nat_w, nat_h, bbox, small_mask) ==
    IF Len(bbox) # 4
    THEN Raised
    ELSE LET x == bbox[1]
             y == bbox[2]
             w0 == bbox[3]
             h0 == bbox[4]
             mask_full == ImageNew(nat_w, nat_h)
         IN  IF ~mask_full.ok
             THEN Raised
             ELSE IF w0 > 0 /\ h0 > 0 /\ x < nat_w /\ y < nat_h
                  THEN LET w == Min(w0, nat_w - x)
                           h == Min(h0, nat_h - y)
                       IN  IF w > 0 /\ h > 0
                           THEN Paste(mask_full, ResizeNearest(small_mask, w, h), x, y)
                           ELSE mask_full
                  ELSE mask_full

\* ---------------------------------------------------------------- payload values
Users == {"u1", "u2"}

\* a JSON list of integers
JList(v) == [k |-> "list", v |-> v]
\* a non-empty string handed to base64.b64decode: valid iff the decoder
\* accepts it, raw the bytes it then returns
JB64(raw, valid) == [k |-> "b64", raw |-> raw, valid |-> valid]

\* PUBLIC_BASE_URL + "/uploads/" (line 250)
Prefix == <<"BASE", "/uploads/">>
\* line 75: the public url of a stored file
PublicUrl(name) == Prefix \o <<name>>
RemoteUrl == <<"OTHER", "/img/", "x.png">>
\* line 55: a fresh name per stored file
NameTable == <<"f1", "f2", "f3", "f4">>

ImgVals == {JNull, JOther, JStr(RemoteUrl), JStr(PublicUrl("f1")), JStr(PublicUrl("gone"))}
PromptTexts == {<<>>, <<" ">>, <<"a">>, <<" ", "ya">>}
PromptVals == {JNull, JOther} \cup {JStr(t) : t \in PromptTexts}
SizeVals == {JNull, JOther, JInt(0), JInt(2), JStr(<<"2">>), JStr(<<"a">>)}
BboxVals == {JNull, JList(<<1, 1, 2, 2>>), JList(<<0, 0, 2>>)}
BitmaskVals == {JNull, JOther, JB64(<<>>, FALSE), JB64(<<192>>, TRUE)}

Digits == <<"0", "1", "2", "3", "4", "5", "6", "7", "8", "9">>
IsDigit(c) == \E d \in 1..Len(Digits) : Digits[d] = c
DigitVal(c) == (CHOOSE d \in 1..Len(Digits) : Digits[d] = c) - 1

RECURSIVE DigitsVal(_)
DigitsVal(s) == IF s = <<>> THEN 0 ELSE 10 * DigitsVal(SubSeq(s, 1, Len(s) - 1)) + DigitVal(s[Len(s)])

\* int(v): [ok, n]; a list or an object, and a string that is no decimal
\* number, raise
PyInt(v) ==
    CASE v.k = "int" -> [ok |-> TRUE, n |-> v.n]
      [] v.k = "str" ->
            LET t == Strip(v.s)
            IN  IF t # <<>> /\ \A i \in 1..Len(t) : IsDigit(t[i])
                THEN [ok |-> TRUE, n |-> DigitsVal(t)]
                ELSE [ok |-> FALSE, n |-> 0]
      [] OTHER -> [ok |-> FALSE, n |-> 0]

\* LAST_IMAGE_URL.get(u): JNull while the user has no entry
LastGet(u) == LAST_IMAGE_URL[u]

\* ---------------------------------------------------------------- handlers
NoImage == [from |-> "none", ref |-> <<>>]
NoCaption == [form |-> "none", prompt |-> <<>>, translated |-> JNull]

\* the local variables of a handler before it has assigned any
loc0 ==
    [data |-> "none", img |-> JNull, img_url |-> JNull, prompt |-> <<>>,
     nat_w |-> 0, nat_h |-> 0, bm_w |-> 0, bm_h |-> 0,
     bbox |-> JNull, b64mask |-> JNull, mask_bytes |-> Raised,
     image_bytes |-> NoImage, translated |-> JNull, provider |-> "none",
     prompt_to_send |-> JStr(<<>>), caption_prompt |-> NoCaption,
     result_png |-> 0, public_url |-> <<>>]

\* the six stages of the pipeline
Validate == 1
BuildMask == 2
ResolveSource == 3
TranslatePrompt == 4
SubmitEdit == 5
ProduceResult == 6

Ev(e, s, op) == [e |-> e, s |-> s, op |-> op]
Started(s) == Ev("start", s, "")
Passed(s) == Ev("ok", s, "")
Failed(s) == Ev("fail", s, "")
Crashed(s) == Ev("crash", s, "")
Called(s, op) == Ev("call", s, op)

\* msg.reply_text(...) of the error of a stage; status and shown are the
\* backend status and the number of body characters the text includes
ErrorText(about, status, shown) ==
    [kind |-> "text", about |-> about, status |-> status, shown |-> shown, caption |-> NoCaption]
\* msg.reply_photo(result, caption)
Photo(caption) ==
    [kind |-> "photo", about |-> "result", status |-> 0, shown |-> 0, caption |-> caption]
\* a reply that is no outcome of an edit request
Notice(about) ==
    [kind |-> "text", about |-> about, status |-> 0, shown |-> 0, caption |-> NoCaption]

\* a stage that has reported its error goes on to the next stage instead of
\* returning
ReturnFallsThrough ==
    /\ pc' = (CASE pc = "mask" -> "source" [] pc = "source" -> "translate" [] OTHER -> "done")
    /\ loc' = IF pc \in {"mask", "source"} THEN loc ELSE loc0

\* the handler returns: its local variables are gone
Return == pc' = "done" /\ loc' = loc0

\* what an update can be: the /brush command, a message carrying web-app
\* data, a photo or an image document, any other message
UpdateKinds == {"brush", "web_app_data", "photo", "text"}

\* main, lines 316-321: the handlers in the order they are added, each with
\* the kind of update its filter lets through
Handlers ==
    <<[filter |-> "brush", callback |-> "brush_cmd"],
      [filter |-> "web_app_data", callback |-> "webapp_data"],
      [filter |-> "photo", callback |-> "got_image"],
      [filter |-> "ALL", callback |-> "route_webapp_if_any"],
      [filter |-> "ALL", callback |-> "log_every_message"]>>

\* handler.check_update(update)
Matches(i, kind) == Handlers[i].filter \in {"ALL", kind}

\* every handler is added to a group of its own
GroupOfOwn(i) == i

\* add_handler(handler): the group is left at its default, 0
GroupOf(i) == 0

\* Application.process_update: in every group the first handler that matches
\* handles the update, the later ones of the group are not asked
RunList(kind) ==
    LET first(i) == /\ Matches(i, kind)
                    /\ \A j \in 1..(i - 1) : ~(GroupOf(j) = GroupOf(i) /\ Matches(j, kind))
        RECURSIVE from(_)
        from(i) == IF i > Len(Handlers)
                   THEN <<>>
                   ELSE (IF first(i) THEN <<Handlers[i].callback>> ELSE <<>>) \o from(i + 1)
    IN  from(1)

\* the handler that gets an update first
HandlerFor(kind) == Head(RunList(kind))

\* the dispatcher starts the next handler: the one of the next group for the
\* update being processed, or else the first one for the next update; the
\* updates are processed one at a time (concurrent_updates is left off)
Dispatch(u, kind) ==
    /\ pc \in {"idle", "done"}
    /\ IF queue # <<>>
       THEN /\ handler' = Head(queue)
            /\ queue' = Tail(queue)
            /\ ran' = Append(ran, Head(queue))
            /\ UNCHANGED <<nUpdates, user, update, trace, replies, posted, tvars>>
       ELSE /\ nUpdates < MaxUpdates
            /\ nUpdates' = nUpdates + 1
            /\ update' = kind
            /\ handler' = HandlerFor(kind)
            /\ queue' = Tail(RunList(kind))
            /\ ran' = <<HandlerFor(kind)>>
            /\ user' = u
            /\ trace' = <<>>
            /\ replies' = <<>>
            /\ posted' = <<>>
            /\ tpc' = "off"
            /\ text' = <<>>
            /\ tret' = NoReturn
            /\ tcalls' = <<>>
    /\ pc' = "entry"
    /\ loc' = loc0
    /\ UNCHANGED <<DEEPL_API_KEY, LAST_IMAGE_URL, files, nSaved, intakes, uvars>>

\* route_webapp_if_any, lines 294-297; hasData: msg.web_app_data.data is not
\* empty
route_webapp_if_any(hasData) ==
    /\ handler = "route_webapp_if_any" /\ pc = "entry"
    /\ IF update = "web_app_data" /\ hasData
       THEN /\ handler' = "webapp_data"
            /\ ran' = Append(ran, "webapp_data")
            /\ pc' = "entry"
            /\ loc' = loc0
       ELSE /\ Return
            /\ UNCHANGED <<handler, ran>>
    /\ UNCHANGED <<DEEPL_API_KEY, LAST_IMAGE_URL, files, nUpdates, nSaved, user, trace, replies, posted,
                   update, queue, intakes, tvars, uvars>>

\* brush_cmd, lines 185-189
brush_cmd ==
    /\ handler = "brush_cmd" /\ pc = "entry"
    /\ replies' = Append(replies, Notice(IF Truthy(LastGet(user)) THEN "brush_img" ELSE "brush"))
    /\ Return
    /\ UNCHANGED <<DEEPL_API_KEY, LAST_IMAGE_URL, files, nUpdates, nSaved, handler, user, trace, posted,
                   dvars, intakes, tvars, uvars>>

\* got_image, lines 192-201: save_tg_file_to_uploads stores the file under a
\* fresh name, or raises (get_file, the download or the write failed)
got_image_save(ok) ==
    /\ handler = "got_image" /\ pc = "entry"
    /\ IF ok
       THEN /\ nSaved' = nSaved + 1
            /\ files' = files \cup {NameTable[nSaved + 1]}
            /\ loc' = [loc EXCEPT !.public_url = PublicUrl(NameTable[nSaved + 1])]
            /\ intakes' = Append(intakes, [user |-> user, ref |-> PublicUrl(NameTable[nSaved + 1])])
            /\ pc' = "store"
       ELSE /\ UNCHANGED <<nSaved, files, intakes>>
            /\ Return
    /\ UNCHANGED <<DEEPL_API_KEY, LAST_IMAGE_URL, nUpdates, handler, user, trace, replies, posted, dvars, tvars, uvars>>

\* the reference is stored under one fixed user instead of the sender
got_image_store_fixed_user ==
    /\ handler = "got_image" /\ pc = "store"
    /\ LAST_IMAGE_URL' = [LAST_IMAGE_URL EXCEPT !["u1"] = JStr(loc.public_url)]
    /\ replies' = Append(replies, Notice("uploaded"))
    /\ Return
    /\ UNCHANGED <<DEEPL_API_KEY, files, nUpdates, nSaved, handler, user, trace, posted, dvars, intakes, tvars, uvars>>

\* an entry that exists is kept: the first write wins
got_image_store_keep ==
    /\ handler = "got_image" /\ pc = "store"
    /\ LAST_IMAGE_URL' = IF LastGet(user) = JNull
                         THEN [LAST_IMAGE_URL EXCEPT ![user] = JStr(loc.public_url)]
                         ELSE LAST_IMAGE_URL
    /\ replies' = Append(replies, Notice("uploaded"))
    /\ Return
    /\ UNCHANGED <<DEEPL_API_KEY, files, nUpdates, nSaved, handler, user, trace, posted, dvars, intakes, tvars, uvars>>

\* got_image, lines 202-207
got_image_store ==
    /\ handler = "got_image" /\ pc = "store"
    /\ LAST_IMAGE_URL' = [LAST_IMAGE_URL EXCEPT ![user] = JStr(loc.public_url)]
    /\ replies' = Append(replies, Notice("uploaded"))
    /\ Return
    /\ UNCHANGED <<DEEPL_API_KEY, files, nUpdates, nSaved, handler, user, trace, posted, dvars, intakes, tvars, uvars>>

\* ---------------------------------------------------------------- webapp_data
\* the variables webapp_data leaves alone outside the translation
WebFrame == UNCHANGED <<DEEPL_API_KEY, LAST_IMAGE_URL, files, nUpdates, nSaved, handler, user, dvars, intakes, uvars>>

\* what wad.data can be: empty, no JSON, JSON that is no object, an object
RawKinds == {"empty", "notjson", "nonobject", "object"}

\* an unhandled exception leaves the handler: error_handler (lines 307-308)
\* logs it, nothing is sent
Unhandled(s) ==
    /\ trace' = Append(trace, Crashed(s))
    /\ replies' = replies
    /\ Return

\* a stage fails inside its try block: one reply_text, then return
StageError(evs, about, status, shown) ==
    /\ trace' = trace \o evs
    /\ replies' = Append(replies, ErrorText(about, status, shown))
    /\ Return

\* lines 210-222
webapp_entry(raw) ==
    /\ handler = "webapp_data" /\ pc = "entry"
    /\ IF raw = "empty"
       THEN /\ Return
            /\ UNCHANGED <<trace, replies>>
       ELSE IF raw = "notjson"
            THEN /\ StageError(<<Started(Validate), Failed(Validate)>>, "json", 0, 0)
            ELSE /\ trace' = <<Started(Validate)>>
                 /\ loc' = [loc EXCEPT !.data = raw]
                 /\ pc' = "img"
                 /\ replies' = replies
    /\ WebFrame /\ UNCHANGED <<posted, tvars>>

\* line 224; data.get raises when data is no object
webapp_img(v) ==
    /\ handler = "webapp_data" /\ pc = "img"
    /\ IF loc.data # "object"
       THEN /\ Unhandled(Validate)
       ELSE /\ loc' = [loc EXCEPT !.img = v, !.img_url = PyOr(v, LastGet(user))]
            /\ pc' = "prompt"
            /\ UNCHANGED <<trace, replies>>
    /\ WebFrame /\ UNCHANGED <<posted, tvars>>

\* line 225; .strip() raises on a value that is no string
webapp_prompt(v) ==
    /\ handler = "webapp_data" /\ pc = "prompt"
    /\ LET p == PyOr(v, JStr(<<>>))
       IN  IF p.k # "str"
           THEN /\ Unhandled(Validate)
           ELSE /\ loc' = [loc EXCEPT !.prompt = Strip(p.s)]
                /\ pc' = "nat_w"
                /\ UNCHANGED <<trace, replies>>
    /\ WebFrame /\ UNCHANGED <<posted, tvars>>

SizeFields == <<"nat_w", "nat_h", "bm_w", "bm_h", "rest">>

\* lines 226-229, one field each: int(data.get(f) or 0)
webapp_size(i, v) ==
    /\ handler = "webapp_data" /\ pc = SizeFields[i]
    /\ LET n == PyInt(PyOr(v, JInt(0)))
       IN  IF ~n.ok
           THEN /\ Unhandled(Validate)
           ELSE /\ loc' = [loc EXCEPT ![SizeFields[i]] = n.n]
                /\ pc' = SizeFields[i + 1]
                /\ UNCHANGED <<trace, replies>>
    /\ WebFrame /\ UNCHANGED <<posted, tvars>>

\* line 233
MissingFields(l) ==
    \/ ~Truthy(l.img_url)
    \/ ~Truthy(l.b64mask)
    \/ l.nat_w = 0
    \/ l.nat_h = 0
    \/ l.bm_w = 0
    \/ l.bm_h = 0

\* lines 230-231
webapp_rest(vb, vm) ==
    /\ handler = "webapp_data" /\ pc = "rest"
    /\ loc' = [loc EXCEPT !.bbox = PyOr(vb, JList(<<0, 0, 0, 0>>)), !.b64mask = vm]
    /\ pc' = "check"
    /\ UNCHANGED <<trace, replies>>
    /\ WebFrame /\ UNCHANGED <<posted, tvars>>

\* lines 233-235
webapp_check ==
    /\ handler = "webapp_data" /\ pc = "check"
    /\ IF MissingFields(loc)
       THEN StageError(<<Failed(Validate)>>, "fields", 0, 0)
       ELSE /\ trace' = Append(trace, Passed(Validate))
            /\ pc' = "mask"
            /\ UNCHANGED <<loc, replies>>
    /\ WebFrame /\ UNCHANGED <<posted, tvars>>

\* lines 239-243: the possible PNGs of the full-size mask, Raised when a
\* call raises (b64decode, the int() of a bbox element, the decoder, the
\* compositor)
BuildMaskBytes(l) ==
    IF l.b64mask.k # "b64" \/ l.bbox.k # "list"
    THEN {Raised}
    ELSE IF ~l.b64mask.valid
         THEN {Raised}
         ELSE {IF small.ok THEN _build_fullsize_mask(l.nat_w, l.nat_h, l.bbox.v, small) ELSE Raised :
                  small \in _unpack_bitmask_to_L(l.b64mask.raw, l.bm_w, l.bm_h)}

\* lines 237-246
webapp_mask ==
    /\ handler = "webapp_data" /\ pc = "mask"
    /\ \E m \in BuildMaskBytes(loc) :
           IF ~m.ok
           THEN /\ StageError(<<Started(BuildMask), Failed(BuildMask)>>, "mask", 0, 0)
           ELSE /\ trace' = trace \o <<Started(BuildMask), Passed(BuildMask)>>
                /\ loc' = [loc EXCEPT !.mask_bytes = m]
                /\ pc' = "source"
                /\ replies' = replies
    /\ WebFrame /\ UNCHANGED <<posted, tvars>>

StartsWith(t, pre) == Len(t) >= Len(pre) /\ SubSeq(t, 1, Len(pre)) = pre

\* the part of t after the last token sep: t.split(sep)[-1]
RECURSIVE AfterLast(_, _)
AfterLast(t, sep) ==
    IF \E i \in 1..Len(t) : t[i] = sep
    THEN AfterLast(SubSeq(t, (CHOOSE i \in 1..Len(t) : t[i] = sep /\ \A j \in 1..(i - 1) : t[j] # sep) + 1, Len(t)), sep)
    ELSE t

\* the part of t before the first token sep: t.split(sep)[0]
BeforeFirst(t, sep) ==
    IF \E i \in 1..Len(t) : t[i] = sep
    THEN SubSeq(t, 1, (CHOOSE i \in 1..Len(t) : t[i] = sep /\ \A j \in 1..(i - 1) : t[j] # sep) - 1)
    ELSE t

\* line 252
LocalName(url) == BeforeFirst(AfterLast(url, "/uploads/"), "?")

\* line 254: os.path.exists(os.path.join(UPLOAD_DIR, name)); the empty name
\* is UPLOAD_DIR itself
PathExists(name) == name = <<>> \/ (Len(name) = 1 /\ name[1] \in files)

\* lines 250-260: how the source is read: "raise" (img_url is no string),
\* "read" (the local file) or "fetch" (download_bytes)
SourceRoute(img_url) ==
    IF img_url.k # "str"
    THEN "raise"
    ELSE IF StartsWith(img_url.s, Prefix) /\ PathExists(LocalName(img_url.s))
         THEN "read"
         ELSE "fetch"

\* lines 248-263; ok: the read or the download succeeds
webapp_source(ok) ==
    /\ handler = "webapp_data" /\ pc = "source"
    /\ LET route == SourceRoute(loc.img_url)
           \* open() of a directory raises
           good == ok /\ route # "raise" /\ ~(route = "read" /\ LocalName(loc.img_url.s) = <<>>)
           evs == IF route = "raise"
                  THEN <<Started(ResolveSource)>>
                  ELSE <<Started(ResolveSource), Called(ResolveSource, route)>>
       IN  IF good
           THEN /\ trace' = trace \o evs \o <<Passed(ResolveSource)>>
                /\ loc' = [loc EXCEPT !.image_bytes = [from |-> route, ref |-> loc.img_url.s]]
                /\ pc' = "translate"
                /\ replies' = replies
           ELSE /\ StageError(evs \o <<Failed(ResolveSource)>>, "source", 0, 0)
    /\ WebFrame /\ UNCHANGED <<posted, tvars>>

\* lines 265-269: the call of translate_ru_to_en, skipped for an empty prompt
webapp_translate ==
    /\ handler = "webapp_data" /\ pc = "translate"
    /\ loc' = [loc EXCEPT !.caption_prompt = NoCaption, !.prompt_to_send = JStr(loc.prompt)]
    /\ IF loc.prompt # <<>>
       THEN /\ trace' = Append(trace, Started(TranslatePrompt))
            /\ tpc' = "check"
            /\ text' = loc.prompt
            /\ tret' = NoReturn
            /\ tcalls' = <<>>
            /\ pc' = "translating"
       ELSE /\ trace' = trace \o <<Started(TranslatePrompt), Passed(TranslatePrompt)>>
            /\ pc' = "stability"
            /\ UNCHANGED tvars
    /\ UNCHANGED <<replies, posted>>
    /\ WebFrame

\* lines 269-275, once translate_ru_to_en has returned
webapp_translated ==
    /\ handler = "webapp_data" /\ pc = "translating" /\ tpc = "ret"
    /\ IF tret.provider # "none" /\ Truthy(tret.text)
       THEN loc' = [loc EXCEPT !.translated = tret.text, !.provider = tret.provider,
                               !.prompt_to_send = tret.text,
                               !.caption_prompt = [form |-> "ru-en", prompt |-> loc.prompt, translated |-> tret.text]]
       ELSE loc' = [loc EXCEPT !.translated = tret.text, !.provider = tret.provider,
                               !.caption_prompt = [form |-> "plain", prompt |-> loc.prompt, translated |-> JNull]]
    /\ trace' = Append(trace, Passed(TranslatePrompt))
    /\ pc' = "stability"
    /\ tpc' = "off"
    /\ UNCHANGED <<text, tret, tcalls, replies, posted>>
    /\ WebFrame

\* lines 273, 275 and 288: the values the caption of the result is put
\* together from, besides its fixed words
CaptionParts(c) ==
    CASE c.form = "ru-en" -> {JStr(c.prompt), c.translated}
      [] c.form = "plain" -> {JStr(c.prompt)}
      [] OTHER -> {}

\* the default prompt of line 279
Inpaint == <<"inpaint">>

\* the length at which line 122 cuts the body
SnippetMax == 400

\* "image/" in ctype (line 120)
IsImage(ctype) == \E i \in 1..Len(ctype) : ctype[i] = "image/"

\* Content-Type headers, <<>> when the header is missing
CTypes == {<<>>, <<"image/", "png">>, <<"text/", "html">>}
\* lengths of the response body
BodyLens == {0, SnippetMax, SnippetMax + 1}

\* what the POST can come to: an exception, or a response
BackendResponses ==
    {[kind |-> "exc", status |-> 0, ctype |-> <<>>, len |-> 0]}
    \cup [kind : {"http"}, status : {200, 404}, ctype : CTypes, len : BodyLens]

\* the Content-Type of a 200 answer is not looked at
BackendErrorStatusOnly(resp) ==
    IF resp.kind = "exc"
    THEN [raised |-> TRUE, status |-> 0, shown |-> 0]
    ELSE IF resp.status # 200
         THEN [raised |-> TRUE, status |-> resp.status, shown |-> resp.len]
         ELSE [raised |-> FALSE, status |-> 0, shown |-> 0]

\* lines 116-123: the RuntimeError raised for a response, as the status and
\* the number of body characters in its message; raised = FALSE when the
\* body is returned
BackendError(resp) ==
    IF resp.kind = "exc"
    THEN [raised |-> TRUE, status |-> 0, shown |-> 0]
    ELSE IF resp.status # 200
         THEN [raised |-> TRUE, status |-> resp.status, shown |-> resp.len]
         ELSE IF ~IsImage(resp.ctype)
              THEN [raised |-> TRUE, status |-> 0, shown |-> Min(resp.len, SnippetMax)]
              ELSE [raised |-> FALSE, status |-> 0, shown |-> 0]

\* lines 277-282 with call_stability_inpaint, lines 103-123
webapp_stability(resp) ==
    /\ handler = "webapp_data" /\ pc = "stability"
    /\ LET p == PyOr(loc.prompt_to_send, JStr(Inpaint))
           err == BackendError(resp)
       IN  IF p.k # "str"
           THEN \* prompt.strip() raises at line 110, before the request
                /\ StageError(<<Started(SubmitEdit), Failed(SubmitEdit)>>, "stability", 0, 0)
                /\ posted' = posted
           ELSE LET form == [image |-> loc.image_bytes, mask |-> loc.mask_bytes,
                             prompt |-> Strip(p.s)]
                IN  /\ posted' = Append(posted, [form |-> form, resp |-> resp])
                    /\ IF err.raised
                       THEN StageError(<<Started(SubmitEdit), Called(SubmitEdit, "post"), Failed(SubmitEdit)>>,
                                       "stability", err.status, err.shown)
                       ELSE /\ trace' = trace \o <<Started(SubmitEdit), Called(SubmitEdit, "post"), Passed(SubmitEdit)>>
                            /\ loc' = [loc EXCEPT !.result_png = resp.len]
                            /\ pc' = "reply"
                            /\ replies' = replies
    /\ WebFrame /\ UNCHANGED tvars

\* lines 284-291; ok: reply_photo succeeds
webapp_reply(ok) ==
    /\ handler = "webapp_data" /\ pc = "reply"
    /\ IF ok
       THEN /\ trace' = trace \o <<Started(ProduceResult), Passed(ProduceResult)>>
            /\ replies' = Append(replies, Photo(loc.caption_prompt))
            /\ Return
       ELSE StageError(<<Started(ProduceResult), Failed(ProduceResult)>>, "send", 0, 0)
    /\ WebFrame /\ UNCHANGED <<posted, tvars>>

\* ---------------------------------------------------------------- the bot
\* no direct decode-and-composite call is under way
NoMaskCall ==
    [raw |-> <<>>, bm_w |-> 0, bm_h |-> 0, nat_w |-> 0, nat_h |-> 0, bbox |-> <<>>, called |-> TRUE]

\* no update is being handled
Idle ==
    /\ LAST_IMAGE_URL = [u \in Users |-> JNull]
    /\ files = {}
    /\ nUpdates = 0
    /\ nSaved = 0
    /\ handler = "none"
    /\ pc = "idle"
    /\ user = "u1"
    /\ loc = loc0
    /\ trace = <<>>
    /\ replies = <<>>
    /\ posted = <<>>
    /\ update = "none"
    /\ queue = <<>>
    /\ ran = <<>>
    /\ intakes = <<>>

Init ==
    /\ DEEPL_API_KEY \in BOOLEAN
    /\ Idle
    /\ tpc = "off"
    /\ text = <<>>
    /\ tret = NoReturn
    /\ tcalls = <<>>
    /\ uarg = [raw |-> <<>>, w |-> 0, h |-> 0, called |-> TRUE]
    /\ ures = Raised
    /\ marg = NoMaskCall
    /\ mres = Raised

Next ==
    \/ \E u \in Users : \E kind \in UpdateKinds : Dispatch(u, kind)
    \/ \E hasData \in BOOLEAN : route_webapp_if_any(hasData)
    \/ brush_cmd
    \/ \E ok \in BOOLEAN : got_image_save(ok)
    \/ got_image_store
    \/ \E raw \in RawKinds : webapp_entry(raw)
    \/ \E v \in ImgVals : webapp_img(v)
    \/ \E v \in PromptVals : webapp_prompt(v)
    \/ \E i \in 1..4 : \E v \in SizeVals : webapp_size(i, v)
    \/ \E vb \in BboxVals : \E vm \in BitmaskVals : webapp_rest(vb, vm)
    \/ webapp_check
    \/ webapp_mask
    \/ \E ok \in BOOLEAN : webapp_source(ok)
    \/ webapp_translate
    \/ webapp_translated
    \/ \E resp \in BackendResponses : webapp_stability(resp)
    \/ \E ok \in BOOLEAN : webapp_reply(ok)
    \/ TrCheck
    \/ \E resp \in Responses : TrDeepL(resp)
    \/ \E resp \in Responses : TrLibre(resp)

Spec == Init /\ [][Next]_vars

\* one step of the running handler: everything but the arrival of an update
HandlerStep ==
    \/ \E hasData \in BOOLEAN : route_webapp_if_any(hasData)
    \/ brush_cmd
    \/ \E ok \in BOOLEAN : got_image_save(ok)
    \/ got_image_store
    \/ \E raw \in RawKinds : webapp_entry(raw)
    \/ \E v \in ImgVals : webapp_img(v)
    \/ \E v \in PromptVals : webapp_prompt(v)
    \/ \E i \in 1..4 : \E v \in SizeVals : webapp_size(i, v)
    \/ \E vb \in BboxVals : \E vm \in BitmaskVals : webapp_rest(vb, vm)
    \/ webapp_check
    \/ webapp_mask
    \/ \E ok \in BOOLEAN : webapp_source(ok)
    \/ webapp_translate
    \/ webapp_translated
    \/ \E resp \in BackendResponses : webapp_stability(resp)
    \/ \E ok \in BOOLEAN : webapp_reply(ok)
    \/ TrCheck
    \/ \E resp \in Responses : TrDeepL(resp)
    \/ \E resp \in Responses : TrLibre(resp)

\* the event loop runs the handler it awaits until it returns, and every
\* awaited call returns or raises (REQUEST_TIMEOUT, line 39); when updates
\* arrive is left open
SpecFair == Init /\ [][Next]_vars /\ WF_vars(HandlerStep)

\* ---------------------------------------------------------------- translation alone
InitTranslate ==
    /\ DEEPL_API_KEY \in BOOLEAN
    /\ Idle
    /\ tpc = "check"
    /\ text \in Texts
    /\ tret = NoReturn
    /\ tcalls = <<>>
    /\ uarg = [raw |-> <<>>, w |-> 0, h |-> 0, called |-> TRUE]
    /\ ures = Raised
    /\ marg = NoMaskCall
    /\ mres = Raised

NextTranslate ==
    \/ TrCheck
    \/ \E resp \in Responses : TrDeepL(resp)
    \/ \E resp \in Responses : TrLibre(resp)

SpecTranslate == InitTranslate /\ [][NextTranslate]_vars

\* ---------------------------------------------------------------- decoder alone
ByteVals == {0, 1, 128, 192, 255}
RawInputs == SeqsUpTo(ByteVals, MaxBytes)
Dims == (0 - 1)..MaxDim

InitUnpack ==
    /\ DEEPL_API_KEY = FALSE
    /\ Idle
    /\ tpc = "off"
    /\ text = <<>>
    /\ tret = NoReturn
    /\ tcalls = <<>>
    /\ uarg \in [raw : RawInputs, w : Dims, h : Dims, called : {FALSE}]
    /\ ures = Raised
    /\ marg = NoMaskCall
    /\ mres = Raised

\* one call _unpack_bitmask_to_L(b64, w, h) with b64 the encoding of raw
CallUnpack ==
    /\ ~uarg.called
    /\ uarg' = [uarg EXCEPT !.called = TRUE]
    /\ ures' \in _unpack_bitmask_to_L(uarg.raw, uarg.w, uarg.h)
    /\ UNCHANGED <<DEEPL_API_KEY, hvars, tvars, marg, mres>>

NextUnpack == CallUnpack

SpecUnpack == InitUnpack /\ [][NextUnpack]_vars

\* ---------------------------------------------------------------- mask alone
\* packed rows of a SmallMask: 0110..., 1001..., 1100...
MaskBytes == {96, 144, 192}
SmallDims == {1, 2}
CanvasDims == 0..MaxCanvas
\* bbox x and y reach from left of and above the canvas to its far edge, w
\* and h from negative to larger than the canvas
BboxOffsets == (0 - 2)..MaxCanvas
BboxSizes == (0 - 1)..(MaxCanvas + 1)
Bboxes == {<<x, y, w, h>> : x \in BboxOffsets, y \in BboxOffsets, w \in BboxSizes, h \in BboxSizes}

InitMask ==
    /\ DEEPL_API_KEY = FALSE
    /\ Idle
    /\ tpc = "off"
    /\ text = <<>>
    /\ tret = NoReturn
    /\ tcalls = <<>>
    /\ uarg = [raw |-> <<>>, w |-> 0, h |-> 0, called |-> TRUE]
    /\ ures = Raised
    /\ marg \in [raw : {<<b>> : b \in MaskBytes}, bm_w : SmallDims, bm_h : SmallDims,
                  nat_w : CanvasDims, nat_h : CanvasDims, bbox : Bboxes, called : {FALSE}]
    /\ mres = Raised

\* lines 240-241: small = _unpack_bitmask_to_L(b64mask, bm_w, bm_h), then
\* _build_fullsize_mask(nat_w, nat_h, bbox, small)
CallMask ==
    /\ ~marg.called
    /\ marg' = [marg EXCEPT !.called = TRUE]
    /\ \E small \in _unpack_bitmask_to_L(marg.raw, marg.bm_w, marg.bm_h) :
           mres' = IF small.ok
                   THEN _build_fullsize_mask(marg.nat_w, marg.nat_h, marg.bbox, small)
                   ELSE Raised
    /\ UNCHANGED <<DEEPL_API_KEY, hvars, tvars, uarg, ures>>

NextMask == CallMask

SpecMask == InitMask /\ [][NextMask]_vars

\* ---------------------------------------------------------------- properties
InTrace(ev) == \E i \in 1..Len(trace) : trace[i] = ev
\* the running update is an edit request that carries a payload
EditRequest == handler = "webapp_data" /\ trace # <<>>
Finished == pc = "done"

\* C1: the stages of an edit request start in the order 1..6, each right
\* after the previous one passed; a failure or an unhandled exception is the
\* last thing the request does; every external call (source read or fetch,
\* provider call, backend POST) lies inside its own started stage.
C1_StagesInOrder ==
    handler = "webapp_data" =>
        /\ \A i \in 1..Len(trace) :
              /\ trace[i].e \in {"fail", "crash"} => i = Len(trace) /\ Finished
              /\ trace[i].e = "start" =>
                    IF trace[i].s = Validate THEN i = 1 ELSE trace[i - 1] = Passed(trace[i].s - 1)
              /\ trace[i].e \in {"ok", "fail", "crash", "call"} =>
                    \E j \in 1..(i - 1) :
                        /\ trace[j] = Started(trace[i].s)
                        /\ \A m \in (j + 1)..(i - 1) : trace[m].e = "call"
        /\ tpc # "off" => trace[Len(trace)] = Started(TranslatePrompt)
        /\ tcalls # <<>> => InTrace(Started(TranslatePrompt))
        /\ posted # <<>> => InTrace(Called(SubmitEdit, "post"))

\* C1 witness: a request whose source fetch failed, finished right there
C1_Witness ==
    /\ handler = "webapp_data" /\ Finished
    /\ InTrace(Called(ResolveSource, "fetch"))
    /\ trace[Len(trace)] = Failed(ResolveSource)

\* C2: every finished edit request that carried a payload has sent exactly
\* one message: the photo, or the error text of one stage.
C2_OneOutcome ==
    EditRequest /\ Finished => Len(replies) = 1

\* C3: the translation cannot fail a request: every finished request that
\* passed source resolution has handed its edit request to the backend.
C3_TranslationNeverFails ==
    EditRequest /\ Finished /\ InTrace(Passed(ResolveSource)) => posted # <<>>

\* the calls of one provider in the running translation
CallsOf(p) == {i \in 1..Len(tcalls) : tcalls[i].p = p}
\* a provider answered with status 200 and a translation that is not empty
Succeeded(resp) ==
    /\ resp.kind = "http" /\ resp.status = 200
    /\ resp.tr.k \notin {"bad", "null"}
    /\ resp.tr # JStr(<<>>)
HasCyrillic(t) == \E i \in 1..Len(t) : t[i] \in Cyrillic

C5_NoCyrillicNoCalls ==
    (tpc = "ret" /\ (text = <<>> \/ ~HasCyrillic(text))) =>
        /\ tret = [text |-> JStr(text), provider |-> "none"]
        /\ tcalls = <<>>

\* C5 witness: a Latin text returned with the DeepL credential configured
C5_Witness ==
    /\ tpc = "ret" /\ text = <<"a", " ">> /\ DEEPL_API_KEY
    /\ tret.provider = "none"

\* C6: the returned pair is (original text, none), or (t, p) with t a
\* non-empty string that provider p, called in this translation, answered
\* with status 200.
C6_AttributedOnlyToTranslation ==
    tpc = "ret" =>
        \/ tret = [text |-> JStr(text), provider |-> "none"]
        \/ /\ tret.text.k = "str" /\ tret.text.s # <<>>
           /\ \E i \in 1..Len(tcalls) :
                 /\ tcalls[i].p = tret.provider
                 /\ tcalls[i].resp.kind = "http" /\ tcalls[i].resp.status = 200
                 /\ tcalls[i].resp.tr = tret.text

\* the payload itself lacks a required field: no image reference, no
\* bitmask, or a size that is absent or zero
PayloadLacks(l) ==
    \/ ~Truthy(l.img)
    \/ ~Truthy(l.b64mask)
    \/ l.nat_w = 0 \/ l.nat_h = 0 \/ l.bm_w = 0 \/ l.bm_h = 0
PastValidate == {"mask", "source", "translate", "translating", "stability", "reply"}

\* C7: a request whose payload lacks the image reference, the bitmask or a
\* size never gets past the Validate stage, whatever LAST_IMAGE_URL holds.
C7_MissingFieldStopsAtValidate ==
    (handler = "webapp_data" /\ pc \in PastValidate) => ~PayloadLacks(loc)

\* the backend answered the request with status 200 and an image type
AnsweredImage(resp) ==
    /\ resp.kind = "http" /\ resp.status = 200
    /\ resp.ctype # <<>> /\ Head(resp.ctype) = "image/"
IsPhoto(r) == r.kind = "photo"

C9_ErrorBodyTruncated ==
    (handler = "webapp_data" /\ Finished /\ posted # <<>>
       /\ posted[1].resp.kind = "http" /\ posted[1].resp.status # 200) =>
        /\ Len(replies) = 1
        /\ replies[1].about = "stability"
        /\ replies[1].status = posted[1].resp.status
        /\ replies[1].shown <= SnippetMax

\* bit i of the packed input, the bits counted from 0, each byte from its
\* most significant bit
PackedBit(raw, i) == (raw[(i \div 8) + 1] \div (2 ^ (7 - (i % 8)))) % 2
\* two inputs with the same first n bits
SameFirstBits(r1, r2, n) ==
    \A i \in 0..(n - 1) :
        /\ i < 8 * Len(r1) <=> i < 8 * Len(r2)
        /\ i < 8 * Len(r1) => PackedBit(r1, i) = PackedBit(r2, i)
\* the decoded bitmap is what the contract of the decoder says
DecodedAsPacked ==
    LET total == uarg.w * uarg.h
    IN  /\ ures.ok
        /\ ures.w = uarg.w /\ ures.h = uarg.h
        /\ Len(ures.px) = total
        /\ \A i \in 0..(total - 1) :
              IF i < 8 * Len(uarg.raw)
              THEN ures.px[i + 1] = 255 <=> PackedBit(uarg.raw, i) = 1
              ELSE ures.px[i + 1] = 0
        /\ \A i \in 1..total : ures.px[i] \in {0, 255}
        /\ \A r2 \in RawInputs :
              SameFirstBits(uarg.raw, r2, total) =>
                  ures \in _unpack_bitmask_to_L(r2, uarg.w, uarg.h)

\* C10 as claimed: for all w, h with w*h >= 0 the call returns the bitmap
\* of the contract.
C10_DecodeAnyDims ==
    (uarg.called /\ uarg.w * uarg.h >= 0) => DecodedAsPacked

\* C10: for all w >= 1 and h >= 1 and every packed input the decoded bitmap
\* has w*h pixels, pixel i is 255 iff bit i (most significant bit first) is
\* 1 while input bits are left, 0 beyond them, and the bits after the first
\* w*h change nothing.
C10_DecodePositiveDims ==
    (uarg.called /\ uarg.w >= 1 /\ uarg.h >= 1) => DecodedAsPacked

\* C10 witness: a 3x3 bitmap decoded from one byte: eight pixels from the
\* input, the ninth beyond it
C10_Witness ==
    /\ uarg.called /\ uarg.w = 3 /\ uarg.h = 3 /\ uarg.raw = <<192>>
    /\ ures.ok /\ ures.px = <<255, 255, 0, 0, 0, 0, 0, 0, 0>>

\* the direct call has returned a mask
MaskReturned == marg.called /\ mres.ok
\* pixel (col, row) of the canvas lies inside the bounding box
InBbox(col, row) ==
    /\ col >= marg.bbox[1] /\ col < marg.bbox[1] + marg.bbox[3]
    /\ row >= marg.bbox[2] /\ row < marg.bbox[2] + marg.bbox[4]
CanvasCells == (0..(marg.nat_w - 1)) \X (0..(marg.nat_h - 1))

\* C11: for every canvas size, every bounding box (negative x or y,
\* non-positive w or h, partly or wholly outside the canvas) and every binary
\* SmallMask, _build_fullsize_mask returns a mask of size nat_w x nat_h whose
\* pixels are all 0 or 255 and are 0 outside the intersection of the bounding
\* box with the canvas; the mask is all-zero when the box is wholly outside.
C11_MaskInvariants ==
    marg.called =>
        /\ mres.ok
        /\ mres.w = marg.nat_w /\ mres.h = marg.nat_h
        /\ Len(mres.px) = marg.nat_w * marg.nat_h
        /\ \A n \in 1..Len(mres.px) : mres.px[n] \in {0, 255}
        /\ \A c \in CanvasCells : ~InBbox(c[1], c[2]) => PixelAt(mres, c[1], c[2]) = 0
        /\ (\A c \in CanvasCells : ~InBbox(c[1], c[2])) => \A n \in 1..Len(mres.px) : mres.px[n] = 0

\* C11 witness: a box that starts left of and above the canvas and ends
\* inside it has marked a pixel
C11_Witness ==
    /\ MaskReturned
    /\ marg.bbox[1] < 0 /\ marg.bbox[2] < 0
    /\ \E n \in 1..Len(mres.px) : mres.px[n] = 255

\* the intakes whose handler has passed line 202: all the stored files but
\* the one of an intake that is between line 201 and line 202
Completed ==
    IF handler = "got_image" /\ pc = "store" THEN SubSeq(intakes, 1, Len(intakes) - 1) ELSE intakes
IntakesOf(u) == {i \in 1..Len(Completed) : Completed[i].user = u}
LastIntakeOf(u) == CHOOSE i \in IntakesOf(u) : \A j \in IntakesOf(u) : j <= i

\* C12: in every state and for every user u, LAST_IMAGE_URL[u] is the
\* reference of the most recently completed successful intake of u, absent
\* when u has had none; failed intakes, edit requests, brush commands and the
\* intakes of other users therefore never change it.
C12_LastIsLatestIntake ==
    \A u \in Users :
        LastGet(u) = IF IntakesOf(u) = {} THEN JNull ELSE JStr(Completed[LastIntakeOf(u)].ref)

\* C12 witness: after an accepted intake of a user, an edit request of the
\* other user has gone all the way to the backend
C12_Witness ==
    /\ Len(intakes) = 1 /\ handler = "webapp_data" /\ Finished
    /\ user # intakes[1].user
    /\ posted # <<>>
    /\ LastGet(intakes[1].user) = JStr(intakes[1].ref)
    /\ LastGet(user) = JNull

\* no handler is running and no handler of the current update is left
Quiet == Finished /\ queue = <<>>

\* C14: of two accepted intakes of one user delivered as A then B, the
\* entry holds the reference of B once both have completed, never that of
\* A; the handlers of two updates never overlap, so there is no other
\* interleaving of their steps.  Intakes of different users each leave
\* their own reference in their own user's entry.
C14_LaterIntakeWins ==
    /\ Quiet =>
          \A a \in 1..Len(intakes) : \A b \in (a + 1)..Len(intakes) :
              IF intakes[a].user = intakes[b].user
              THEN (\A c \in (b + 1)..Len(intakes) : intakes[c].user # intakes[b].user) =>
                       /\ LastGet(intakes[b].user) = JStr(intakes[b].ref)
                       /\ intakes[a].ref # intakes[b].ref
              ELSE (\A c \in 1..Len(intakes) : c \in {a, b} \/ intakes[c].user \notin {intakes[a].user, intakes[b].user}) =>
                       /\ LastGet(intakes[a].user) = JStr(intakes[a].ref)
                       /\ LastGet(intakes[b].user) = JStr(intakes[b].ref)
    \* a second intake is stored only after the first one has been put in
    \* LAST_IMAGE_URL
    /\ Len(intakes) - Len(Completed) <= 1
    /\ \A i \in 1..Len(Completed) : \E u \in Users : LastGet(u) # JNull /\ Completed[i].user = u

\* C14 witness: two accepted intakes of the same user have completed
C14_Witness ==
    /\ Quiet /\ Len(intakes) = 2
    /\ intakes[1].user = intakes[2].user
    /\ LastGet(intakes[2].user) = JStr(intakes[2].ref)

\* two accepted intakes of different users have completed
C14_WitnessTwoUsers ==
    /\ Quiet /\ Len(intakes) = 2
    /\ intakes[1].user # intakes[2].user

\* the photo the running request has answered with
PhotoReplies == {i \in 1..Len(replies) : replies[i].kind = "photo"}
\* the name of a provider as a caption would show it
ProviderName(p) == JStr(<<p>>)

\* C13: the caption of a successful request with a non-empty prompt holds
\* the original text, the translation and the name of the provider when the
\* translation is attributed to one, and the original text alone otherwise.
C13_CaptionStatesHandling ==
    (handler = "webapp_data" /\ Finished /\ tpc = "off" /\ text # <<>>) =>
        \A i \in PhotoReplies :
            IF tret.provider # "none"
            THEN /\ JStr(text) \in CaptionParts(replies[i].caption)
                 /\ tret.text \in CaptionParts(replies[i].caption)
                 /\ ProviderName(tret.provider) \in CaptionParts(replies[i].caption)
            ELSE CaptionParts(replies[i].caption) = {JStr(text)}

\* the multipart form of the last request handed to the backend
Submitted == posted[Len(posted)].form

\* C15: the request handed to the backend carries the image bytes of stage
\* 3 and the mask of stage 2; its prompt is the translation when a provider
\* is attributed, else the user's trimmed prompt, and the form has no
\* prompt when the user supplied none.
C15_SubmittedAsResolved ==
    (handler = "webapp_data" /\ posted # <<>>) =>
        /\ pc = "reply" => Submitted.image = loc.image_bytes /\ Submitted.mask = loc.mask_bytes
        /\ Submitted.prompt =
               IF text = <<>>
               THEN <<>>
               ELSE IF tret.provider # "none" THEN Strip(tret.text.s) ELSE text

InSeq(t, ev) == \E i \in 1..Len(t) : t[i] = ev
\* the request is about to resolve a source whose reference is a string
AtSource == handler = "webapp_data" /\ pc = "source" /\ loc.img_url.k = "str"
\* the reference lies in the bot's own upload namespace
InNamespace == StartsWith(loc.img_url.s, Prefix)

\* C16: source resolution issues a network fetch if and only if the
\* reference lies outside the upload namespace; a reference inside it is
\* resolved by the local read alone, and a failed read ends the request
\* with the source error.
C16_FetchIffOutside ==
    [][AtSource =>
          /\ InSeq(trace', Called(ResolveSource, "fetch")) <=> ~InNamespace
          /\ InNamespace =>
                /\ InSeq(trace', Called(ResolveSource, "read"))
                /\ trace'[Len(trace')] \in {Passed(ResolveSource), Failed(ResolveSource)}
                /\ trace'[Len(trace')] = Failed(ResolveSource) =>
                       pc' = "done" /\ replies' = <<ErrorText("source", 0, 0)>>]_vars

\* how often ev occurs in t
Count(t, ev) == Cardinality({i \in 1..Len(t) : t[i] = ev})

\* C17: within one request the source fetch, the DeepL call, the
\* LibreTranslate call and the backend POST are each issued at most once,
\* whatever they come to; the pipeline is entered once per request and a
\* request that has failed leaves nothing queued.
C17_NothingRepeated ==
    handler = "webapp_data" =>
        /\ Count(trace, Called(ResolveSource, "fetch")) <= 1
        /\ Count(trace, Called(ResolveSource, "read")) <= 1
        /\ Cardinality(CallsOf("deepl")) <= 1
        /\ Cardinality(CallsOf("libre")) <= 1
        /\ Len(posted) <= 1
        /\ Count(trace, Called(SubmitEdit, "post")) = Len(posted)
        /\ Count(ran, "webapp_data") = 1
        /\ (Finished /\ trace # <<>> /\ trace[Len(trace)].e \in {"fail", "crash"}) =>
               queue = <<>> /\ tpc = "off" /\ loc = loc0

\* C17 witness: both providers were called and failed, the backend was
\* called and failed, and the request has ended
C17_Witness ==
    /\ handler = "webapp_data" /\ Finished
    /\ Cardinality(CallsOf("deepl")) = 1 /\ Cardinality(CallsOf("libre")) = 1
    /\ \A i \in 1..Len(tcalls) : ~Accepted(tcalls[i].resp)
    /\ Len(posted) = 1
    /\ trace[Len(trace)] = Failed(SubmitEdit)

\* the bounding box has the size of the SmallMask and lies wholly inside
\* the canvas
BboxFits ==
    /\ marg.bbox[3] = marg.bm_w /\ marg.bbox[4] = marg.bm_h
    /\ marg.bbox[1] >= 0 /\ marg.bbox[2] >= 0
    /\ marg.bbox[1] + marg.bm_w <= marg.nat_w
    /\ marg.bbox[2] + marg.bm_h <= marg.nat_h

\* C18: for a bounding box (x, y, bm_w, bm_h) with x, y >= 0 that lies
\* wholly inside the canvas, decoding and compositing gives a mask whose
\* pixel (x + i, y + j) is SmallMask pixel (i, j), that is bit j * bm_w + i
\* of the packed input, for all i < bm_w and j < bm_h, and whose other
\* pixels are 0.
C18_SameSizeCopiesSmallMask ==
    (marg.called /\ BboxFits) =>
        /\ mres.ok
        /\ mres.w = marg.nat_w /\ mres.h = marg.nat_h
        /\ \A c \in CanvasCells :
              LET i == c[1] - marg.bbox[1]
                  j == c[2] - marg.bbox[2]
              IN  PixelAt(mres, c[1], c[2]) =
                      IF InBbox(c[1], c[2]) /\ PackedBit(marg.raw, j * marg.bm_w + i) = 1
                      THEN 255
                      ELSE 0

\* C18 witness: a 2 x 2 SmallMask copied into a canvas, its first row
\* marked and its second row clear
C18_Witness ==
    /\ MaskReturned /\ BboxFits
    /\ marg.bm_w = 2 /\ marg.bm_h = 2
    /\ PixelAt(mres, marg.bbox[1], marg.bbox[2]) = 255
    /\ PixelAt(mres, marg.bbox[1] + 1, marg.bbox[2]) = 255
    /\ PixelAt(mres, marg.bbox[1], marg.bbox[2] + 1) = 0

\* the n-th update is an edit request whose payload has been parsed
RequestNo(n) == nUpdates = n /\ EditRequest
\* the running request has sent its result or the error of a stage
HasOutcome == Finished /\ Len(replies) = 1

\* C19: under fairness every delivered edit request, the first and the
\* later ones whatever became of those before, eventually reaches its own
\* terminal outcome: the result or the error message of a stage.
C19_EveryRequestGetsOutcome ==
    \A n \in 1..MaxUpdates : RequestNo(n) ~> (RequestNo(n) /\ HasOutcome)

\* C20: for an update that carries web-app data the pipeline webapp_data is
\* entered exactly once, by the dedicated handler; route_webapp_if_any does
\* not get that update, so one payload leads to at most one backend
\* submission and at most one reply.  An update without web-app data never
\* enters the pipeline.
C20_PipelineOncePerUpdate ==
    /\ update = "web_app_data" =>
          /\ Count(ran, "webapp_data") = 1
          /\ Count(ran, "route_webapp_if_any") = 0
          /\ Len(posted) <= 1
          /\ Len(replies) <= 1
    /\ update # "web_app_data" => Count(ran, "webapp_data") = 0

\* C20 witness: an update with web-app data has been handled to the end,
\* with one submission and one reply
C20_Witness ==
    /\ update = "web_app_data" /\ Quiet
    /\ ran = <<"webapp_data">>
    /\ Len(posted) = 1 /\ Len(replies) = 1

\* an update that no earlier handler takes has gone through
\* route_webapp_if_any
C20_WitnessFallback ==
    /\ update = "text" /\ Quiet
    /\ ran = <<"route_webapp_if_any">>
====
